---------------------------- MODULE Spec2Model ----------------------------
(***************************************************************************)
(* Model of the SharedVpc component (src/src/aws/shared-vpc.ts): the CIDR  *)
(* allocator (calculateSubnetCidrs, cidrSubnet) as operators over 32-bit   *)
(* words, and the SharedVpc constructor as a sequential process whose      *)
(* position is pc and whose resource declarations are appended, in program *)
(* order, to the request log.  A resource handle is the position of its    *)
(* declaration in that log.                                                *)
(***************************************************************************)
EXTENDS Integers, Sequences, FiniteSets, TLC

VARIABLES
  args,             \* SharedVpcArgs: the caller's configuration
  pc,               \* the constructor's position
  requests,         \* resources declared so far (new aws.*), in program order
  warnings,         \* pulumi.log.warn calls so far, in program order
  error,            \* the Error thrown ("none" while none was thrown)
  vpc,              \* handle of the Vpc (0 before it is declared)
  igw,              \* handle of the InternetGateway
  subnetTiers,      \* args.subnetTiers ?? the default three tiers
  tierCidrs,        \* Map tier name -> blocks, from calculateSubnetCidrs
  tierSubnets,      \* Map tier name -> subnet handles
  natGateways,      \* handles of the NAT gateways, in creation order
  allRouteTableIds, \* handles of the route tables, in creation order
  flowLogsBucket,   \* handle of the flow-log bucket (0: undefined)
  ramShare,         \* handle of the RAM resource share
  outputs           \* what registerOutputs was given (empty before)

vars == <<args, pc, requests, warnings, error, vpc, igw, subnetTiers, tierCidrs,
          tierSubnets, natGateways, allRouteTableIds, flowLogsBucket, ramShare,
          outputs>>

(***************************************************************************)
(* Bounds of the model.                                                    *)
(***************************************************************************)
MaxAz == 6
MaxNat == 3

(***************************************************************************)
(* JavaScript values.  An optional property is a sequence of length <= 1   *)
(* (<<>> is undefined).  NaN is a number outside every range the model     *)
(* computes with.                                                          *)
(***************************************************************************)
NaN == -1000

Undefined == <<>>

Some(v) == <<v>>

\* a ?? d
Coalesce(a, d) == IF a = Undefined THEN d ELSE a[1]

Min(a, b) == IF a < b THEN a ELSE b

\* Math.ceil(a / b) for integers a >= 0, b > 0
Ceil(a, b) == (a + b - 1) \div b

\* a + b on JavaScript numbers
Plus(a, b) == IF a = NaN \/ b = NaN THEN NaN ELSE a + b

\* a - b on JavaScript numbers
Minus(a, b) == IF a = NaN \/ b = NaN THEN NaN ELSE a - b

(***************************************************************************)
(* Text.  A CIDR string is held as the result of splitting it: the         *)
(* sequence of its "/"-separated parts, each the sequence of its           *)
(* "."-separated tokens.  A token is [lead, tail]: lead is the value of    *)
(* its leading decimal digits (NaN when it has none), tail says whether    *)
(* other characters follow them.                                           *)
(***************************************************************************)
Tok(n) == [lead |-> n, tail |-> FALSE]

Junk == [lead |-> NaN, tail |-> TRUE]

Dotted(a, b, c, d) == <<Tok(a), Tok(b), Tok(c), Tok(d)>>

CidrText(a, b, c, d, p) == <<Dotted(a, b, c, d), <<Tok(p)>>>>

\* Number.parseInt(token, 10): the leading digits, whatever follows them
parseIntTok(t) == t.lead

\* Number.parseInt(text, 10) of a text that may hold dots: parsing stops at
\* the first character that is no digit, so only the first token counts
parseInt(text) == parseIntTok(text[1])

(***************************************************************************)
(* 32-bit words: bit i of w is w[i], bit 0 the least significant.          *)
(***************************************************************************)
Bits == 0..31

\* ToInt32(n) for an integer 0 <= n < 2^31
ToInt32(n) == [i \in Bits |-> IF i >= 31 THEN 0 ELSE (n \div (2^i)) % 2]

\* w << count: the count is taken modulo 32, NaN counts as 0
Shl(w, count) ==
  LET c == IF count = NaN THEN 0 ELSE count % 32
  IN  [i \in Bits |-> IF i >= c THEN w[i - c] ELSE 0]

\* a | b
BitOr(a, b) == [i \in Bits |-> IF a[i] = 1 \/ b[i] = 1 THEN 1 ELSE 0]

\* (w >>> (8 * k)) & 0xff, k = 0 for the lowest octet
Octet(w, k) ==
  LET b(j) == w[8 * k + j]
  IN  b(0) + 2 * b(1) + 4 * b(2) + 8 * b(3) + 16 * b(4) + 32 * b(5)
        + 64 * b(6) + 128 * b(7)

\* the word of a dotted-quad address of octets in 0..255
WordOf(ip) == [i \in Bits |-> (ip[4 - (i \div 8)] \div (2^(i % 8))) % 2]

(***************************************************************************)
(* Results of functions that may throw.                                    *)
(***************************************************************************)
Ok(v) == [ok |-> TRUE, err |-> "none", val |-> v]

Throw(e) == [ok |-> FALSE, err |-> e, val |-> <<>>]

(***************************************************************************)
(* cidrSubnet(cidr, newbits, netnum)                                       *)
(***************************************************************************)
\* SubnetWord with the shift one bit short
SubnetWordShortShift(ipParts, newPrefix, netnum) ==
  LET baseNum == BitOr(BitOr(BitOr(Shl(ToInt32(ipParts[1]), 24),
                                   Shl(ToInt32(ipParts[2]), 16)),
                             Shl(ToInt32(ipParts[3]), 8)),
                       ToInt32(ipParts[4]))
      shift == Minus(31, newPrefix)
      subnetNum == Shl(ToInt32(netnum), shift)
  IN  BitOr(baseNum, subnetNum)

\* the address arithmetic of cidrSubnet, lines 256-265
SubnetWord(ipParts, newPrefix, netnum) ==
  LET baseNum == BitOr(BitOr(BitOr(Shl(ToInt32(ipParts[1]), 24),
                                   Shl(ToInt32(ipParts[2]), 16)),
                             Shl(ToInt32(ipParts[3]), 8)),
                       ToInt32(ipParts[4]))
      shift == Minus(32, newPrefix)
      subnetNum == Shl(ToInt32(netnum), shift)
  IN  BitOr(baseNum, subnetNum)

cidrSubnet(cidr, newbits, netnum) ==
  IF Len(cidr) # 2
  THEN Throw("Invalid CIDR block")
  ELSE LET baseIp == cidr[1]
           prefix == parseInt(cidr[2])
           newPrefix == Plus(prefix, newbits)
           ipParts == [j \in 1..Len(baseIp) |-> parseIntTok(baseIp[j])]
       IN  IF Len(ipParts) # 4 \/ \E j \in 1..Len(ipParts) : ipParts[j] = NaN
           THEN Throw("Invalid IP address")
           ELSE LET resultNum == SubnetWord(ipParts, newPrefix, netnum)
                IN  Ok([ip |-> <<Octet(resultNum, 3), Octet(resultNum, 2),
                                 Octet(resultNum, 1), Octet(resultNum, 0)>>,
                        prefix |-> newPrefix])

(***************************************************************************)
(* calculateSubnetCidrs(vpcCidr, tiers, azCount)                           *)
(***************************************************************************)
DefaultCidrBits == 6

\* Map.set
MapSet(m, k, v) == [x \in (DOMAIN m) \cup {k} |-> IF x = k THEN v ELSE m[x]]

EmptyMap == [x \in {} |-> <<>>]

\* The two loops of lines 221-232 from tier p (1-based) and zone azIndex on;
\* st holds subnetIndex, the current tier's subnets and the map built so far.
RECURSIVE AllocLoop(_, _, _, _, _, _)
AllocLoop(vpcCidr, tiers, azCount, p, azIndex, st) ==
  IF p > Len(tiers)
  THEN Ok(st.tierCidrs)
  ELSE IF azIndex < azCount
       THEN LET cidrBits == Coalesce(tiers[p].cidrBits, DefaultCidrBits)
                r == cidrSubnet(vpcCidr, cidrBits, st.subnetIndex)
            IN  IF ~r.ok
                THEN Throw(r.err)
                ELSE AllocLoop(vpcCidr, tiers, azCount, p, azIndex + 1,
                               [st EXCEPT !.subnets = Append(@, r.val),
                                          !.subnetIndex = @ + 1])
       ELSE AllocLoop(vpcCidr, tiers, azCount, p + 1, 0,
                      [st EXCEPT !.subnets = <<>>,
                                 !.tierCidrs = MapSet(@, tiers[p].name, st.subnets)])

calculateSubnetCidrs(vpcCidr, tiers, azCount) ==
  IF Len(vpcCidr) # 2
  THEN Throw("Invalid CIDR block")
  ELSE AllocLoop(vpcCidr, tiers, azCount, 1, 0,
                 [subnetIndex |-> 0, subnets |-> <<>>, tierCidrs |-> EmptyMap])

(***************************************************************************)
(* Configurations.                                                         *)
(***************************************************************************)
Tier(n, r, s, b) ==
  [name |-> n, routeToInternet |-> r, shareViaRam |-> s, cidrBits |-> b]

\* the default of args.subnetTiers, lines 354-358
DefaultTiers ==
  << Tier("public", TRUE, FALSE, Undefined),
     Tier("private", FALSE, TRUE, Undefined),
     Tier("data", FALSE, TRUE, Undefined) >>

\* the healthcare example of the SubnetTier documentation, lines 101-107
HealthcareTiers ==
  << Tier("public", TRUE, FALSE, Undefined),
     Tier("app", FALSE, TRUE, Undefined),
     Tier("hipaa-data", FALSE, TRUE, Undefined),
     Tier("phi-isolated", FALSE, TRUE, Some(8)) >>

\* the values of args.subnetTiers the model draws from
TierLists ==
  { Undefined,
    Some(DefaultTiers),
    Some(HealthcareTiers),
    Some(<< Tier("public", TRUE, FALSE, Some(1)),
            Tier("private", FALSE, TRUE, Some(1)) >>),
    Some(<< Tier("dmz", TRUE, TRUE, Undefined),
            Tier("app", FALSE, FALSE, Undefined) >>),
    Some(<< Tier("public", TRUE, FALSE, Undefined) >>),
    Some(<< Tier("app", FALSE, FALSE, Undefined) >>) }

\* the values of args.vpcCidr the model draws from: "10.224.0.0/16",
\* "192.168.1.0/24", "10.224.0/16" (three octets), "10.x.0.0/16" (an octet
\* that is no number), "10.224.0.0" (no prefix)
VpcCidrs ==
  { CidrText(10, 224, 0, 0, 16),
    CidrText(192, 168, 1, 0, 24),
    << <<Tok(10), Tok(224), Tok(0)>>, <<Tok(16)>> >>,
    << <<Tok(10), Junk, Tok(0), Tok(0)>>, <<Tok(16)>> >>,
    << Dotted(10, 224, 0, 0) >> }

\* availabilityZones: zone i stands for the i-th name of the list
ZoneLists == { [i \in 1..n |-> i] : n \in 1..MaxAz }

NatCounts == {Undefined} \cup { Some(n) : n \in 0..MaxNat }

OptBool == {Undefined, Some(TRUE), Some(FALSE)}

\* the values of args.sharedAccounts the model draws from: the entries of the
\* object, each <<accountId, accountName>>
OneAccount == << <<"413639306030", "worx-app-dev">> >>

TwoAccounts ==
  << <<"413639306030", "worx-app-dev">>, <<"413639306031", "worx-app-stg">> >>

FlowLogsArgs(enabled) ==
  [enabled |-> enabled, trafficType |-> "ALL", retentionDays |-> Some(90),
   customFormat |-> Undefined]

\* the deployments the model draws from: environment, flowLogs,
\* sharedAccounts and vpcEndpoints of one component
Deployments ==
  { [environment |-> "stg", flowLogs |-> FlowLogsArgs(TRUE),
     sharedAccounts |-> OneAccount,
     vpcEndpoints |-> Some(<<"s3", "ecr.api">>)],
    [environment |-> "prd", flowLogs |-> FlowLogsArgs(FALSE),
     sharedAccounts |-> TwoAccounts,
     vpcEndpoints |-> Some(<<"ecr.dkr", "dynamodb", "ecr.api">>)] }

ArgsSet ==
  UNION { [ environment : {d.environment},
            region : {"us-east-1"},
            accountId : {"730335555486"},
            orgPrefix : {"worx"},
            vpcCidr : VpcCidrs,
            availabilityZones : ZoneLists,
            subnetTiers : TierLists,
            natGatewayCount : NatCounts,
            enableIpv6 : OptBool,
            allowIpv6PublicIngress : OptBool,
            enableDnsHostnames : {Undefined},
            enableDnsSupport : {Undefined},
            flowLogs : {d.flowLogs},
            sharedAccounts : {d.sharedAccounts},
            vpcEndpoints : {d.vpcEndpoints} ] : d \in Deployments }

(***************************************************************************)
(* The state after super(...) at line 305: nothing declared yet.           *)
(***************************************************************************)
Init ==
  /\ args \in ArgsSet
  /\ pc = "vpc"
  /\ requests = <<>>
  /\ warnings = <<>>
  /\ error = "none"
  /\ vpc = 0
  /\ igw = 0
  /\ subnetTiers = <<>>
  /\ tierCidrs = EmptyMap
  /\ tierSubnets = EmptyMap
  /\ natGateways = <<>>
  /\ allRouteTableIds = <<>>
  /\ flowLogsBucket = 0
  /\ ramShare = 0
  /\ outputs = <<>>

(***************************************************************************)
(* Helpers of the constructor.                                             *)
(***************************************************************************)
\* new aws.<kind>(name, props, opts): the request the collaborator receives
Res(kind, protect, props) == [kind |-> kind, protect |-> protect] @@ props

\* Map.get(k) ?? d
MapGetOr(m, k, d) == IF k \in DOMAIN m THEN m[k] ELSE d

azCount == Len(args.availabilityZones)

natGatewayCount == Coalesce(args.natGatewayCount, 0)

publicSubnets == MapGetOr(tierSubnets, "public", <<>>)

privateSubnets == MapGetOr(tierSubnets, "private", <<>>)

dataSubnets == MapGetOr(tierSubnets, "data", <<>>)

\* throw new Error(e): the constructor ends, what was declared stays declared
Fail(e, log) ==
  /\ error' = e
  /\ pc' = "failed"
  /\ requests' = log

(***************************************************************************)
(* FOUNDATION RESOURCES, lines 314-351.                                    *)
(***************************************************************************)
DeclareVpc ==
  /\ pc = "vpc"
  /\ requests' = Append(requests,
       Res("Vpc", TRUE,
           [cidrBlock |-> args.vpcCidr,
            enableDnsHostnames |-> Coalesce(args.enableDnsHostnames, TRUE),
            enableDnsSupport |-> Coalesce(args.enableDnsSupport, TRUE),
            assignGeneratedIpv6CidrBlock |-> Coalesce(args.enableIpv6, FALSE)]))
  /\ vpc' = Len(requests) + 1
  /\ pc' = "igw"
  /\ UNCHANGED <<args, warnings, error, igw, subnetTiers, tierCidrs, tierSubnets,
                 natGateways, allRouteTableIds, flowLogsBucket, ramShare, outputs>>

DeclareInternetGateway ==
  /\ pc = "igw"
  /\ requests' = Append(requests, Res("InternetGateway", FALSE, [vpcId |-> vpc]))
  /\ igw' = Len(requests) + 1
  /\ pc' = "cidrs"
  /\ UNCHANGED <<args, warnings, error, vpc, subnetTiers, tierCidrs, tierSubnets,
                 natGateways, allRouteTableIds, flowLogsBucket, ramShare, outputs>>

(***************************************************************************)
(* Default tiers and CIDR calculation, lines 353-365.                      *)
(***************************************************************************)
CalculateCidrs ==
  /\ pc = "cidrs"
  /\ LET tiers == Coalesce(args.subnetTiers, DefaultTiers)
         r == calculateSubnetCidrs(args.vpcCidr, tiers, azCount)
     IN  /\ subnetTiers' = tiers
         /\ IF r.ok
            THEN /\ tierCidrs' = r.val
                 /\ pc' = "subnets"
                 /\ UNCHANGED <<error, requests>>
            ELSE /\ Fail(r.err, requests)
                 /\ UNCHANGED tierCidrs
  /\ UNCHANGED <<args, warnings, vpc, igw, tierSubnets, natGateways,
                 allRouteTableIds, flowLogsBucket, ramShare, outputs>>

(***************************************************************************)
(* Subnets, lines 367-411.                                                 *)
(***************************************************************************)
\* The loop over the tiers from tier p on; st holds the log, the map and
\* the error thrown, if any.
RECURSIVE SubnetLoop(_, _)
SubnetLoop(p, st) ==
  IF p > Len(subnetTiers)
  THEN st
  ELSE LET tier == subnetTiers[p]
       IN  IF tier.name \notin DOMAIN tierCidrs
           THEN [st EXCEPT !.err = "Missing CIDR allocation for tier"]
           ELSE LET cidrs == tierCidrs[tier.name]
                    good == Min(azCount, Len(cidrs))
                    base == Len(st.log)
                    made == [i \in 1..good |->
                               Res("Subnet", TRUE,
                                   [vpcId |-> vpc,
                                    cidrBlock |-> cidrs[i],
                                    availabilityZone |-> args.availabilityZones[i],
                                    mapPublicIpOnLaunch |-> tier.routeToInternet,
                                    Tier |-> tier.name,
                                    Type |-> IF tier.routeToInternet
                                             THEN "public" ELSE "private",
                                    ShareViaRam |-> tier.shareViaRam])]
                IN  IF good < azCount
                    THEN [st EXCEPT !.log = @ \o made,
                                    !.err = "Missing CIDR for tier"]
                    ELSE SubnetLoop(p + 1,
                           [st EXCEPT !.log = @ \o made,
                                      !.map = MapSet(@, tier.name,
                                                     [i \in 1..good |-> base + i])])

CreateSubnets ==
  /\ pc = "subnets"
  /\ LET st == SubnetLoop(1, [log |-> requests, map |-> EmptyMap, err |-> "none"])
     IN  IF st.err # "none"
         THEN /\ Fail(st.err, st.log)
              /\ UNCHANGED tierSubnets
         ELSE /\ requests' = st.log
              /\ tierSubnets' = st.map
              /\ pc' = "nat"
              /\ UNCHANGED error
  /\ UNCHANGED <<args, warnings, vpc, igw, subnetTiers, tierCidrs, natGateways,
                 allRouteTableIds, flowLogsBucket, ramShare, outputs>>

(***************************************************************************)
(* NAT gateways, lines 413-469.                                            *)
(***************************************************************************)
\* The loop of line 427 from index i (0-based) on.
RECURSIVE NatLoop(_, _)
NatLoop(i, st) ==
  IF ~(i < Min(natGatewayCount, Len(publicSubnets)))
  THEN st
  ELSE IF i + 1 > azCount \/ i + 1 > Len(publicSubnets)
       THEN [st EXCEPT !.err = "Missing AZ or subnet for NAT Gateway index"]
       ELSE LET subnet == publicSubnets[i + 1]
                eip == Len(st.log) + 1
                natGw == Len(st.log) + 2
            IN  NatLoop(i + 1,
                  [st EXCEPT
                     !.log = @ \o << Res("Eip", FALSE, [domain |-> "vpc"]),
                                     Res("NatGateway", FALSE,
                                         [subnetId |-> subnet,
                                          allocationId |-> eip]) >>,
                     !.nats = Append(@, natGw)])

CreateNatGateways ==
  /\ pc = "nat"
  /\ LET st == IF natGatewayCount > 0
               THEN NatLoop(0, [log |-> requests, nats |-> <<>>, err |-> "none"])
               ELSE [log |-> requests, nats |-> <<>>, err |-> "none"]
     IN  IF st.err # "none"
         THEN /\ Fail(st.err, st.log)
              /\ UNCHANGED natGateways
         ELSE /\ requests' = st.log
              /\ natGateways' = st.nats
              /\ pc' = "ha"
              /\ UNCHANGED error
  /\ UNCHANGED <<args, warnings, vpc, igw, subnetTiers, tierCidrs, tierSubnets,
                 allRouteTableIds, flowLogsBucket, ramShare, outputs>>

(***************************************************************************)
(* HIGH AVAILABILITY VALIDATION, lines 475-484.                            *)
(***************************************************************************)
\* line 477 with <= for <
HaConcernInclusive == natGatewayCount > 0 /\ natGatewayCount <= azCount

\* the condition of line 477
HaConcern == natGatewayCount > 0 /\ natGatewayCount < azCount

\* the figures the warning text interpolates
HaWarning ==
  [kind |-> "NatHa", natCount |-> natGatewayCount, azCount |-> azCount,
   azsPerNat |-> Ceil(azCount, natGatewayCount)]

\* HaValidation that throws where the code warns
HaValidationFatal ==
  /\ pc = "ha"
  /\ IF HaConcern
     THEN Fail("NAT Gateway HA concern", requests)
     ELSE pc' = "egress" /\ UNCHANGED <<requests, error>>
  /\ UNCHANGED <<args, warnings, vpc, igw, subnetTiers, tierCidrs,
                 tierSubnets, natGateways, allRouteTableIds, flowLogsBucket,
                 ramShare, outputs>>

HaValidation ==
  /\ pc = "ha"
  /\ warnings' = IF HaConcern THEN Append(warnings, HaWarning) ELSE warnings
  /\ pc' = "egress"
  /\ UNCHANGED <<args, requests, error, vpc, igw, subnetTiers, tierCidrs,
                 tierSubnets, natGateways, allRouteTableIds, flowLogsBucket,
                 ramShare, outputs>>

(***************************************************************************)
(* EGRESS VALIDATION, lines 490-513.                                       *)
(***************************************************************************)
privateTiersExist == \E p \in 1..Len(subnetTiers) : ~subnetTiers[p].routeToInternet

\* line 492 with === false for !== true
NoEgressPathUnlessUnset ==
  privateTiersExist /\ natGatewayCount = 0 /\ args.enableIpv6 = Some(FALSE)

\* the condition of line 492
NoEgressPath ==
  privateTiersExist /\ natGatewayCount = 0 /\ args.enableIpv6 # Some(TRUE)

\* line 502 without privateTiersExist
Ipv6OnlyModeAnyTier == natGatewayCount = 0 /\ args.enableIpv6 = Some(TRUE)

\* the condition of line 502
Ipv6OnlyMode ==
  privateTiersExist /\ natGatewayCount = 0 /\ args.enableIpv6 = Some(TRUE)

EgressValidation ==
  /\ pc = "egress"
  /\ IF NoEgressPath
     THEN Fail("Private subnets require internet egress", requests)
     ELSE /\ pc' = "ipv6warn"
          /\ UNCHANGED <<error, requests>>
  /\ UNCHANGED <<args, warnings, vpc, igw, subnetTiers, tierCidrs, tierSubnets,
                 natGateways, allRouteTableIds, flowLogsBucket, ramShare, outputs>>

Ipv6OnlyWarning ==
  /\ pc = "ipv6warn"
  /\ warnings' = IF Ipv6OnlyMode
                 THEN Append(warnings, [kind |-> "Ipv6Only", natCount |-> 0,
                                        azCount |-> azCount, azsPerNat |-> 0])
                 ELSE warnings
  /\ pc' = "nacl"
  /\ UNCHANGED <<args, requests, error, vpc, igw, subnetTiers, tierCidrs,
                 tierSubnets, natGateways, allRouteTableIds, flowLogsBucket,
                 ramShare, outputs>>

(***************************************************************************)
(* NETWORK ACLs, lines 519-669.                                            *)
(***************************************************************************)
AclRule(nacl, number, protocol, cidr, from, to, egress) ==
  Res("NetworkAclRule", FALSE,
      [networkAclId |-> nacl, ruleNumber |-> number, protocol |-> protocol,
       ruleAction |-> "allow", cidrBlock |-> cidr, fromPort |-> from,
       toPort |-> to, egress |-> egress])

\* "0.0.0.0/0"
AnyIpv4 == CidrText(0, 0, 0, 0, 0)

\* the rules of a tier with routeToInternet, lines 539-599 (a rule without
\* ports has fromPort = toPort = -1)
PublicAclRules(nacl) ==
  << AclRule(nacl, 100, "tcp", AnyIpv4, 443, 443, FALSE),
     AclRule(nacl, 110, "tcp", AnyIpv4, 80, 80, FALSE),
     AclRule(nacl, 120, "tcp", AnyIpv4, 1024, 65535, FALSE),
     AclRule(nacl, 100, "-1", AnyIpv4, -1, -1, TRUE) >>

\* the rules of a tier without routeToInternet, lines 603-645
PrivateAclRules(nacl) ==
  << AclRule(nacl, 100, "-1", args.vpcCidr, -1, -1, FALSE),
     AclRule(nacl, 110, "tcp", AnyIpv4, 1024, 65535, FALSE),
     AclRule(nacl, 100, "-1", AnyIpv4, -1, -1, TRUE) >>

\* subnets.forEach of a loop that throws at the first index without a zone:
\* the number of subnets it handles before that
Handled(subnets) == Min(Len(subnets), azCount)

\* The loop over the tiers from tier p on.
RECURSIVE NaclLoop(_, _)
NaclLoop(p, st) ==
  IF p > Len(subnetTiers)
  THEN st
  ELSE LET tier == subnetTiers[p]
           tierNacl == Len(st.log) + 1
           rules == IF tier.routeToInternet
                    THEN PublicAclRules(tierNacl)
                    ELSE PrivateAclRules(tierNacl)
           log1 == Append(st.log, Res("NetworkAcl", FALSE,
                                      [vpcId |-> vpc, Tier |-> tier.name]))
                     \o rules
       IN  IF tier.name \notin DOMAIN tierSubnets
           THEN [log |-> log1, err |-> "Missing subnets for tier"]
           ELSE LET subnets == tierSubnets[tier.name]
                    assoc == [i \in 1..Handled(subnets) |->
                                Res("NetworkAclAssociation", FALSE,
                                    [networkAclId |-> tierNacl,
                                     subnetId |-> subnets[i]])]
                IN  IF Handled(subnets) < Len(subnets)
                    THEN [log |-> log1 \o assoc, err |-> "Missing AZ for subnet"]
                    ELSE NaclLoop(p + 1, [st EXCEPT !.log = log1 \o assoc])

CreateNetworkAcls ==
  /\ pc = "nacl"
  /\ LET st == NaclLoop(1, [log |-> requests, err |-> "none"])
     IN  IF st.err # "none"
         THEN Fail(st.err, st.log)
         ELSE /\ requests' = st.log
              /\ pc' = "publicRt"
              /\ UNCHANGED error
  /\ UNCHANGED <<args, warnings, vpc, igw, subnetTiers, tierCidrs, tierSubnets,
                 natGateways, allRouteTableIds, flowLogsBucket, ramShare, outputs>>

(***************************************************************************)
(* ROUTING RESOURCES: the public route table, lines 675-748.               *)
(***************************************************************************)
\* "0.0.0.0/0" and "::/0" as route destinations
DefaultV4 == "0.0.0.0/0"

DefaultV6 == "::/0"

\* Route on the table declared one request later
RouteToNext(rt, dest, via, target) ==
  Res("Route", FALSE,
      [routeTableId |-> rt + 1, destination |-> dest, via |-> via,
       target |-> target])

Route(rt, dest, via, target) ==
  Res("Route", FALSE,
      [routeTableId |-> rt, destination |-> dest, via |-> via, target |-> target])

RouteTable(type, tier) ==
  Res("RouteTable", FALSE, [vpcId |-> vpc, Type |-> type, Tier |-> tier])

Association(subnet, rt) ==
  Res("RouteTableAssociation", FALSE, [subnetId |-> subnet, routeTableId |-> rt])

\* publicTiers as every tier
publicTiersAll == subnetTiers

publicTiers == SelectSeq(subnetTiers, LAMBDA t : t.routeToInternet)

\* privateTiers as the tiers called "private"
privateTiersNamed == SelectSeq(subnetTiers, LAMBDA t : t.name = "private")

privateTiers == SelectSeq(subnetTiers, LAMBDA t : ~t.routeToInternet)

\* the condition of line 713 without the flag
PublicIpv6RouteUngated == args.enableIpv6 = Some(TRUE)

\* the condition of line 713
PublicIpv6Route ==
  args.enableIpv6 = Some(TRUE) /\ Coalesce(args.allowIpv6PublicIngress, TRUE)

\* The loop of line 726 over the public tiers from the p-th on.
RECURSIVE PublicAssocLoop(_, _, _)
PublicAssocLoop(p, publicRt, st) ==
  IF p > Len(publicTiers)
  THEN st
  ELSE LET tier == publicTiers[p]
       IN  IF tier.name \notin DOMAIN tierSubnets
           THEN [st EXCEPT !.err = "Missing subnets for public tier"]
           ELSE LET subnets == tierSubnets[tier.name]
                    assoc == [i \in 1..Handled(subnets) |->
                                Association(subnets[i], publicRt)]
                IN  IF Handled(subnets) < Len(subnets)
                    THEN [log |-> st.log \o assoc, err |-> "Missing AZ for subnet"]
                    ELSE PublicAssocLoop(p + 1, publicRt,
                                         [st EXCEPT !.log = @ \o assoc])

PublicRouting ==
  /\ pc = "publicRt"
  /\ IF Len(publicTiers) > 0
     THEN LET publicRt == Len(requests) + 1
              log1 == requests
                        \o << RouteTable("public", ""),
                              Route(publicRt, DefaultV4, "gatewayId", igw) >>
                        \o IF PublicIpv6Route
                           THEN << Route(publicRt, DefaultV6, "gatewayId", igw) >>
                           ELSE <<>>
              st == PublicAssocLoop(1, publicRt, [log |-> log1, err |-> "none"])
          IN  /\ allRouteTableIds' = Append(allRouteTableIds, publicRt)
              /\ IF st.err # "none"
                 THEN Fail(st.err, st.log)
                 ELSE /\ requests' = st.log
                      /\ pc' = "privateRt"
                      /\ UNCHANGED error
     ELSE /\ pc' = "privateRt"
          /\ UNCHANGED <<requests, error, allRouteTableIds>>
  /\ UNCHANGED <<args, warnings, vpc, igw, subnetTiers, tierCidrs, tierSubnets,
                 natGateways, flowLogsBucket, ramShare, outputs>>

(***************************************************************************)
(* ROUTING RESOURCES: the private tiers' route tables, lines 750-887.      *)
(***************************************************************************)
\* natIndex as the remainder of the zone index
natIndexModulo(i) == i % Len(natGateways)

\* the NAT gateway of zone index i (0-based), line 768
natIndex(i) == Min(i, Len(natGateways) - 1)

\* The forEach of line 762 from subnet index i (0-based) on.
RECURSIVE NatRouteZoneLoop(_, _, _)
NatRouteZoneLoop(tier, i, st) ==
  LET subnets == tierSubnets[tier.name]
  IN  IF i >= Len(subnets)
      THEN st
      ELSE IF i + 1 > azCount
           THEN [st EXCEPT !.err = "Missing AZ for subnet"]
           ELSE IF natIndex(i) < 0 \/ natIndex(i) >= Len(natGateways)
                THEN [st EXCEPT !.err = "Missing NAT Gateway at index"]
                ELSE LET natGw == natGateways[natIndex(i) + 1]
                         privateRt == Len(st.log) + 1
                     IN  NatRouteZoneLoop(tier, i + 1,
                           [st EXCEPT
                              !.log = @ \o << RouteTable("private", tier.name),
                                              Route(privateRt, DefaultV4,
                                                    "natGatewayId", natGw),
                                              Association(subnets[i + 1], privateRt) >>,
                              !.rts = Append(@, privateRt)])

\* The loop of line 756 over the private tiers from the p-th on.
RECURSIVE NatRouteLoop(_, _)
NatRouteLoop(p, st) ==
  IF p > Len(privateTiers)
  THEN st
  ELSE LET tier == privateTiers[p]
       IN  IF tier.name \notin DOMAIN tierSubnets
           THEN [st EXCEPT !.err = "Missing subnets for private tier"]
           ELSE LET st1 == NatRouteZoneLoop(tier, 0, st)
                IN  IF st1.err # "none" THEN st1 ELSE NatRouteLoop(p + 1, st1)

\* The loop of line 864 over the private tiers from the p-th on.
RECURSIVE SharedAssocLoop(_, _, _)
SharedAssocLoop(p, sharedRt, st) ==
  IF p > Len(privateTiers)
  THEN st
  ELSE LET tier == privateTiers[p]
       IN  IF tier.name \notin DOMAIN tierSubnets
           THEN [st EXCEPT !.err = "Missing subnets for private tier"]
           ELSE LET subnets == tierSubnets[tier.name]
                    assoc == [i \in 1..Handled(subnets) |->
                                Association(subnets[i], sharedRt)]
                IN  IF Handled(subnets) < Len(subnets)
                    THEN [st EXCEPT !.log = @ \o assoc,
                                    !.err = "Missing AZ for subnet"]
                    ELSE SharedAssocLoop(p + 1, sharedRt,
                                         [st EXCEPT !.log = @ \o assoc])

\* the branch of line 754: per-zone tables through the NAT gateways
NatRouting == Len(natGateways) > 0

PrivateRouting ==
  /\ pc = "privateRt"
  /\ LET st0 == [log |-> requests, rts |-> allRouteTableIds, err |-> "none"]
         st == IF Len(privateTiers) = 0
               THEN st0
               ELSE IF NatRouting
                    THEN NatRouteLoop(1, st0)
                    ELSE LET sharedRt == Len(requests) + 1
                             eigw == Len(requests) + 2
                             log1 == Append(requests, RouteTable("shared", ""))
                                       \o IF args.enableIpv6 = Some(TRUE)
                                          THEN << Res("EgressOnlyInternetGateway",
                                                      FALSE, [vpcId |-> vpc]),
                                                  Route(sharedRt, DefaultV6,
                                                        "egressOnlyGatewayId", eigw) >>
                                          ELSE <<>>
                         IN  SharedAssocLoop(1, sharedRt,
                               [log |-> log1,
                                rts |-> Append(allRouteTableIds, sharedRt),
                                err |-> "none"])
     IN  /\ allRouteTableIds' = st.rts
         /\ IF st.err # "none"
            THEN Fail(st.err, st.log)
            ELSE /\ requests' = st.log
                 /\ pc' = "flowLogs"
                 /\ UNCHANGED error
  /\ UNCHANGED <<args, warnings, vpc, igw, subnetTiers, tierCidrs, tierSubnets,
                 natGateways, flowLogsBucket, ramShare, outputs>>

(***************************************************************************)
(* OPERATIONS RESOURCES: the flow-log bucket, lines 893-1002.              *)
(***************************************************************************)
\* the bucket name of line 899, as the sequence of its "-"-joined pieces
flowLogsBucketName(a) == <<a.orgPrefix, "flow-logs", a.accountId, a.region>>

FlowLogRequests(bucket) ==
  << Res("BucketV2", FALSE, [bucket |-> flowLogsBucketName(args)]),
     Res("BucketVersioningV2", FALSE, [bucket |-> bucket, status |-> "Enabled"]) >>
  \o (IF args.flowLogs.retentionDays # Undefined
      THEN << Res("BucketLifecycleConfigurationV2", FALSE,
                  [bucket |-> bucket, status |-> "Enabled",
                   days |-> args.flowLogs.retentionDays[1]]) >>
      ELSE <<>>)
  \o << Res("BucketPublicAccessBlock", FALSE,
            [bucket |-> bucket, blockPublicAcls |-> TRUE,
             blockPublicPolicy |-> TRUE, ignorePublicAcls |-> TRUE,
             restrictPublicBuckets |-> TRUE]),
        Res("BucketServerSideEncryptionConfigurationV2", FALSE,
            [bucket |-> bucket, sseAlgorithm |-> "AES256"]),
        Res("FlowLog", FALSE,
            [vpcId |-> vpc, logDestinationType |-> "s3", logDestination |-> bucket,
             trafficType |-> args.flowLogs.trafficType,
             logFormat |-> Coalesce(args.flowLogs.customFormat, "default")]) >>

\* FlowLogs without the test of line 895
FlowLogsAlways ==
  /\ pc = "flowLogs"
  /\ requests' = requests \o FlowLogRequests(Len(requests) + 1)
  /\ flowLogsBucket' = Len(requests) + 1
  /\ pc' = "endpoints"
  /\ UNCHANGED <<args, warnings, error, vpc, igw, subnetTiers, tierCidrs,
                 tierSubnets, natGateways, allRouteTableIds, ramShare, outputs>>

FlowLogs ==
  /\ pc = "flowLogs"
  /\ IF args.flowLogs.enabled
     THEN /\ requests' = requests \o FlowLogRequests(Len(requests) + 1)
          /\ flowLogsBucket' = Len(requests) + 1
     ELSE UNCHANGED <<requests, flowLogsBucket>>
  /\ pc' = "endpoints"
  /\ UNCHANGED <<args, warnings, error, vpc, igw, subnetTiers, tierCidrs,
                 tierSubnets, natGateways, allRouteTableIds, ramShare, outputs>>

(***************************************************************************)
(* SECURITY RESOURCES: VPC endpoints, lines 1008-1094.                     *)
(***************************************************************************)
\* gatewayEndpoints without dynamodb
gatewayEndpointsS3Only == <<"s3">>

gatewayEndpoints == <<"s3", "dynamodb">>

Includes(seq, x) == \E j \in 1..Len(seq) : seq[j] = x

EndpointRequests(services, vpcEndpointSg) ==
  LET interfaceEndpoints ==
        SelectSeq(services, LAMBDA ep : ~Includes(gatewayEndpoints, ep))
      requested == SelectSeq(gatewayEndpoints, LAMBDA g : Includes(services, g))
  IN  << Res("SecurityGroup", FALSE,
             [vpcId |-> vpc,
              ingress |-> << [protocol |-> "tcp", fromPort |-> 443, toPort |-> 443,
                              cidrBlocks |-> <<args.vpcCidr>>] >>,
              egress |-> << [protocol |-> "-1", fromPort |-> 0, toPort |-> 0,
                             cidrBlocks |-> <<AnyIpv4>>] >>]) >>
      \o [j \in 1..Len(requested) |->
            Res("VpcEndpoint", FALSE,
                [vpcId |-> vpc, service |-> requested[j],
                 vpcEndpointType |-> "Gateway",
                 routeTableIds |-> allRouteTableIds,
                 subnetIds |-> <<>>, securityGroupIds |-> <<>>])]
      \o [j \in 1..Len(interfaceEndpoints) |->
            Res("VpcEndpoint", FALSE,
                [vpcId |-> vpc, service |-> interfaceEndpoints[j],
                 vpcEndpointType |-> "Interface",
                 routeTableIds |-> <<>>,
                 subnetIds |-> privateSubnets,
                 securityGroupIds |-> <<vpcEndpointSg>>])]

VpcEndpoints ==
  /\ pc = "endpoints"
  /\ requests' = IF args.vpcEndpoints # Undefined /\ Len(args.vpcEndpoints[1]) > 0
                 THEN requests \o EndpointRequests(args.vpcEndpoints[1],
                                                   Len(requests) + 1)
                 ELSE requests
  /\ pc' = "ram"
  /\ UNCHANGED <<args, warnings, error, vpc, igw, subnetTiers, tierCidrs,
                 tierSubnets, natGateways, allRouteTableIds, flowLogsBucket,
                 ramShare, outputs>>

(***************************************************************************)
(* SHARING RESOURCES, lines 1100-1150.                                     *)
(***************************************************************************)
\* sharedTiers as the tiers without routeToInternet
sharedTiersPrivate == SelectSeq(subnetTiers, LAMBDA t : ~t.routeToInternet)

sharedTiers == SelectSeq(subnetTiers, LAMBDA t : t.shareViaRam)

\* The loop of line 1121 over the shared tiers from the p-th on.
RECURSIVE ShareLoop(_, _, _)
ShareLoop(p, share, st) ==
  IF p > Len(sharedTiers)
  THEN st
  ELSE LET tier == sharedTiers[p]
       IN  IF tier.name \notin DOMAIN tierSubnets
           THEN [st EXCEPT !.err = "Missing subnets for shared tier"]
           ELSE LET subnets == tierSubnets[tier.name]
                    assoc == [i \in 1..Len(subnets) |->
                                Res("ResourceAssociation", FALSE,
                                    [resourceArn |-> subnets[i],
                                     resourceShareArn |-> share,
                                     index |-> st.subnetAssociationIndex + i - 1])]
                IN  ShareLoop(p + 1, share,
                      [st EXCEPT !.log = @ \o assoc,
                                 !.subnetAssociationIndex = @ + Len(subnets)])

RamShare ==
  /\ pc = "ram"
  /\ LET share == Len(requests) + 1
         st == ShareLoop(1, share,
                 [log |-> Append(requests,
                                 Res("ResourceShare", FALSE,
                                     [allowExternalPrincipals |-> FALSE])),
                  subnetAssociationIndex |-> 0, err |-> "none"])
         principals == [j \in 1..Len(args.sharedAccounts) |->
                          Res("PrincipalAssociation", FALSE,
                              [principal |-> args.sharedAccounts[j][1],
                               resourceShareArn |-> share])]
     IN  /\ ramShare' = share
         /\ IF st.err # "none"
            THEN Fail(st.err, st.log)
            ELSE /\ requests' = st.log \o principals
                 /\ pc' = "outputs"
                 /\ UNCHANGED error
  /\ UNCHANGED <<args, warnings, vpc, igw, subnetTiers, tierCidrs, tierSubnets,
                 natGateways, allRouteTableIds, flowLogsBucket, outputs>>

(***************************************************************************)
(* registerOutputs, lines 1152-1163.                                       *)
(***************************************************************************)
RegisterOutputs ==
  /\ pc = "outputs"
  /\ outputs' = << [vpcId |-> vpc,
                    publicSubnetIds |-> publicSubnets,
                    privateSubnetIds |-> privateSubnets,
                    dataSubnetIds |-> dataSubnets,
                    internetGatewayId |-> igw,
                    natGatewayIds |-> natGateways,
                    ramShareArn |-> ramShare,
                    flowLogsBucketArn |-> flowLogsBucket] >>
  /\ pc' = "done"
  /\ UNCHANGED <<args, requests, warnings, error, vpc, igw, subnetTiers, tierCidrs,
                 tierSubnets, natGateways, allRouteTableIds, flowLogsBucket, ramShare>>

(***************************************************************************)
(* The constructor: its statements in program order.                       *)
(***************************************************************************)
Next ==
  \/ DeclareVpc
  \/ DeclareInternetGateway
  \/ CalculateCidrs
  \/ CreateSubnets
  \/ CreateNatGateways
  \/ HaValidation
  \/ EgressValidation
  \/ Ipv6OnlyWarning
  \/ CreateNetworkAcls
  \/ PublicRouting
  \/ PrivateRouting
  \/ FlowLogs
  \/ VpcEndpoints
  \/ RamShare
  \/ RegisterOutputs

Spec == Init /\ [][Next]_vars

(***************************************************************************)
(* Planning on its own: the constructor up to the subnets of lines         *)
(* 367-411, for a wider choice of parent blocks and tier lists.            *)
(***************************************************************************)
\* a token of digits followed by other characters, like "16x"
TokThen(n) == [lead |-> n, tail |-> TRUE]

\* the parent blocks: "10.224.0.0/16", "10.224.0.0/30", "192.168.1.0/24",
\* "10.224.0/16", "10.224.0.0.0/16", "10.x.0.0/16", "10.224.0.0",
\* "10.224.0.0/16/8", "10.300.0.0/16", "10.224.0.0/abc", "10.224.0.0/40",
\* "10.224.0.0/16x", "10.224.0.0/-1"
AllocCidrs ==
  { CidrText(10, 224, 0, 0, 16),
    CidrText(10, 224, 0, 0, 30),
    CidrText(192, 168, 1, 0, 24),
    << <<Tok(10), Tok(224), Tok(0)>>, <<Tok(16)>> >>,
    << <<Tok(10), Tok(224), Tok(0), Tok(0), Tok(0)>>, <<Tok(16)>> >>,
    << <<Tok(10), Junk, Tok(0), Tok(0)>>, <<Tok(16)>> >>,
    << Dotted(10, 224, 0, 0) >>,
    << Dotted(10, 224, 0, 0), <<Tok(16)>>, <<Tok(8)>> >>,
    CidrText(10, 300, 0, 0, 16),
    << Dotted(10, 224, 0, 0), <<Junk>> >>,
    CidrText(10, 224, 0, 0, 40),
    << Dotted(10, 224, 0, 0), <<TokThen(16)>> >>,
    CidrText(10, 224, 0, 0, -1) }

\* the tier lists: those of TierLists, the empty list and two lists that
\* name a tier twice
AllocTierLists ==
  TierLists
    \cup { Some(<<>>),
           Some(<< Tier("public", TRUE, FALSE, Undefined),
                   Tier("app", FALSE, TRUE, Undefined),
                   Tier("app", FALSE, FALSE, Some(8)) >>),
           Some(<< Tier("app", FALSE, TRUE, Undefined),
                   Tier("app", FALSE, FALSE, Undefined) >>) }

AllocArgsSet ==
  [ environment : {"stg"},
    region : {"us-east-1"},
    accountId : {"730335555486"},
    orgPrefix : {"worx"},
    vpcCidr : AllocCidrs,
    availabilityZones : ZoneLists,
    subnetTiers : AllocTierLists,
    natGatewayCount : {Undefined},
    enableIpv6 : {Undefined},
    allowIpv6PublicIngress : {Undefined},
    enableDnsHostnames : {Undefined},
    enableDnsSupport : {Undefined},
    flowLogs : {FlowLogsArgs(TRUE)},
    sharedAccounts : {OneAccount},
    vpcEndpoints : {Undefined} ]

AllocInit ==
  /\ args \in AllocArgsSet
  /\ pc = "vpc"
  /\ requests = <<>>
  /\ warnings = <<>>
  /\ error = "none"
  /\ vpc = 0
  /\ igw = 0
  /\ subnetTiers = <<>>
  /\ tierCidrs = EmptyMap
  /\ tierSubnets = EmptyMap
  /\ natGateways = <<>>
  /\ allRouteTableIds = <<>>
  /\ flowLogsBucket = 0
  /\ ramShare = 0
  /\ outputs = <<>>

AllocNext ==
  \/ DeclareVpc
  \/ DeclareInternetGateway
  \/ CalculateCidrs
  \/ CreateSubnets

AllocSpec == AllocInit /\ [][AllocNext]_vars

(***************************************************************************)
(* Vocabulary of the properties.                                           *)
(***************************************************************************)
\* the constructor's positions in program order
Steps ==
  << "vpc", "igw", "cidrs", "subnets", "nat", "ha", "egress", "ipv6warn", "nacl",
     "publicRt", "privateRt", "flowLogs", "endpoints", "ram", "outputs", "done" >>

StepNo(s) == CHOOSE k \in 1..Len(Steps) : Steps[k] = s

AllocatorErrors == {"Invalid CIDR block", "Invalid IP address"}

EgressError == "Private subnets require internet egress"

\* the statement at position s has been executed (and did not throw before)
Past(s) ==
  \/ pc # "failed" /\ StepNo(pc) > StepNo(s)
  \/ pc = "failed" /\ error = EgressError /\ StepNo("egress") > StepNo(s)

Terminated == pc \in {"done", "failed"}

\* the declared resources of one kind
Declared(kind) == { h \in 1..Len(requests) : requests[h].kind = kind }

\* the configuration as the caller gave it
ConfiguredTiers == Coalesce(args.subnetTiers, DefaultTiers)

HasPrivateTier ==
  \E p \in 1..Len(ConfiguredTiers) : ~ConfiguredTiers[p].routeToInternet

ConfiguredNat == Coalesce(args.natGatewayCount, 0)

ZoneCount == Len(args.availabilityZones)

Ipv6On == args.enableIpv6 = Some(TRUE)

\* the parent block has two "/"-parts and four numeric octets
WellFormedParent ==
  /\ Len(args.vpcCidr) = 2
  /\ Len(args.vpcCidr[1]) = 4
  /\ \A j \in 1..4 : args.vpcCidr[1][j].lead # NaN

ParentBlock ==
  [ip |-> [j \in 1..4 |-> args.vpcCidr[1][j].lead],
   prefix |-> args.vpcCidr[2][1].lead]

\* the (tier, zone) slots that hold a block
Slots ==
  { s \in (1..Len(subnetTiers)) \X (1..ZoneCount) :
      subnetTiers[s[1]].name \in DOMAIN tierCidrs }

SlotBlock(s) == tierCidrs[subnetTiers[s[1]].name][s[2]]

\* the two blocks share an address: they agree on the leading bits of the
\* shorter prefix
Overlap(a, b) ==
  LET m == Min(Min(a.prefix, b.prefix), 32)
  IN  \A i \in Bits : i >= 32 - m => WordOf(a.ip)[i] = WordOf(b.ip)[i]

\* every address of block a is an address of block b
Inside(a, b) ==
  /\ a.prefix >= b.prefix
  /\ \A i \in Bits : i >= 32 - b.prefix => WordOf(a.ip)[i] = WordOf(b.ip)[i]

HaWarned == \E j \in 1..Len(warnings) : warnings[j].kind = "NatHa"

Ipv6Warned == \E j \in 1..Len(warnings) : warnings[j].kind = "Ipv6Only"

\* the subnets of the tiers without routeToInternet
PrivateSubnets == { h \in Declared("Subnet") : ~requests[h].mapPublicIpOnLaunch }

\* route table rt holds a default route through a NAT gateway or through
\* the egress-only gateway
HasEgressRoute(rt) ==
  \E r \in Declared("Route") :
    /\ requests[r].routeTableId = rt
    /\ \/ requests[r].destination = DefaultV4 /\ requests[r].via = "natGatewayId"
       \/ requests[r].destination = DefaultV6
            /\ requests[r].via = "egressOnlyGatewayId"

\* the zones of a tier whose route table sends 0.0.0.0/0 to NAT gateway g
ZonesServed(tierName, g) ==
  { a \in Declared("RouteTableAssociation") :
      /\ requests[requests[a].subnetId].Tier = tierName
      /\ \E r \in Declared("Route") :
           /\ requests[r].routeTableId = requests[a].routeTableId
           /\ requests[r].destination = DefaultV4
           /\ requests[r].via = "natGatewayId"
           /\ requests[r].target = g }

\* the least q with q * b >= a, for a >= 0 and b > 0
LeastQuotient(a, b) == CHOOSE q \in 0..a : q * b >= a /\ (q = 0 \/ (q - 1) * b < a)

(***************************************************************************)
(* C1: the blocks calculateSubnetCidrs assigns to two distinct (tier,      *)
(* zone) slots share no address, whatever the parent block, the tiers'     *)
(* cidrBits and the zone count.                                            *)
(***************************************************************************)
C1_SlotsDisjoint ==
  \A s \in Slots : \A t \in Slots : s # t => ~Overlap(SlotBlock(s), SlotBlock(t))

(***************************************************************************)
(* C2: every block calculateSubnetCidrs returns lies inside the parent     *)
(* block: its leading parent-prefix bits are the parent's network bits.    *)
(***************************************************************************)
C2_SlotsInsideParent ==
  \A s \in Slots : Inside(SlotBlock(s), ParentBlock)

C4_ErrorsBeforeRequests ==
  error # "none" => requests = <<>>

(***************************************************************************)
(* C5: in a completed composition every private-tier subnet is associated  *)
(* with a route table that holds a default route (0.0.0.0/0 to a NAT       *)
(* gateway or ::/0 to the egress-only gateway), and the shared route table *)
(* is only used when enableIpv6 is true.                                   *)
(***************************************************************************)
C5_PrivateSubnetsHaveEgress ==
  pc = "done" =>
    /\ \A h \in PrivateSubnets :
         \E a \in Declared("RouteTableAssociation") :
           requests[a].subnetId = h /\ HasEgressRoute(requests[a].routeTableId)
    /\ (\E rt \in Declared("RouteTable") : requests[rt].Type = "shared") => Ipv6On

(***************************************************************************)
(* C6: within one private tier no NAT gateway is the default route of more *)
(* than ceil(zoneCount / natGatewayCount) zones (6 zones and 2 gateways:   *)
(* three zones each).                                                      *)
(***************************************************************************)
C6_NatSpreadEven ==
  pc = "done" /\ ConfiguredNat > 0 =>
    /\ \A p \in 1..Len(ConfiguredTiers) : \A g \in Declared("NatGateway") :
         Cardinality(ZonesServed(ConfiguredTiers[p].name, g))
           <= LeastQuotient(ZoneCount, ConfiguredNat)
    /\ ZoneCount = 6 /\ ConfiguredNat = 2 /\ Len(natGateways) = 2 =>
         \A p \in 1..Len(ConfiguredTiers) : \A a \in Declared("RouteTableAssociation") :
           LET subnet == requests[requests[a].subnetId]
               replica == IF subnet.availabilityZone <= 3 THEN 1 ELSE 2
           IN  subnet.Tier = ConfiguredTiers[p].name /\ ~subnet.mapPublicIpOnLaunch
                 => a \in ZonesServed(subnet.Tier, natGateways[replica])

(***************************************************************************)
(* C7: with natGatewayCount = n > 0 exactly min(n, zoneCount) NAT gateways *)
(* are created, each with its own Elastic IP, gateway j in the zone-j      *)
(* subnet of an internet-routing tier.                                     *)
(***************************************************************************)
C7_NatGatewayCount ==
  Past("nat") /\ ConfiguredNat > 0 =>
    /\ Len(natGateways) = Min(ConfiguredNat, ZoneCount)
    /\ Cardinality(Declared("NatGateway")) = Min(ConfiguredNat, ZoneCount)
    /\ \A j \in 1..Len(natGateways) :
         LET g == requests[natGateways[j]]
         IN  /\ requests[g.allocationId].kind = "Eip"
             /\ requests[g.subnetId].kind = "Subnet"
             /\ requests[g.subnetId].mapPublicIpOnLaunch
             /\ requests[g.subnetId].availabilityZone = args.availabilityZones[j]
             /\ \A k \in 1..Len(natGateways) :
                  k # j => requests[natGateways[k]].allocationId # g.allocationId

(***************************************************************************)
(* C8: with natGatewayCount > 0 and no public-tier subnet to host a NAT    *)
(* gateway, composition aborts with an error instead of continuing         *)
(* without NAT gateways.                                                   *)
(***************************************************************************)
C8_NoNatHostAborts ==
  ConfiguredNat > 0 /\ Len(publicSubnets) = 0 => ~Past("nat")

(***************************************************************************)
(* C9: the NAT high-availability warning is emitted if and only if         *)
(* 0 < natGatewayCount < number of zones, and reports the ratio            *)
(* ceil(zoneCount / natGatewayCount).                                      *)
(***************************************************************************)
HaRatioRight ==
  \A j \in 1..Len(warnings) :
    warnings[j].kind = "NatHa" =>
      /\ warnings[j].azsPerNat = LeastQuotient(ZoneCount, ConfiguredNat)
      /\ (ZoneCount = 6 /\ ConfiguredNat = 1 => warnings[j].azsPerNat = 6)
      /\ (ZoneCount = 6 /\ ConfiguredNat = 2 => warnings[j].azsPerNat = 3)
      /\ (ZoneCount = 6 /\ ConfiguredNat = 3 => warnings[j].azsPerNat = 2)

Completed == pc = "done"

\* the configured tier a declared subnet belongs to
TierOfSubnet(h) ==
  ConfiguredTiers[CHOOSE p \in 1..Len(ConfiguredTiers) :
                    ConfiguredTiers[p].name = requests[h].Tier]

RamAssociated(h) ==
  \E a \in Declared("ResourceAssociation") : requests[a].resourceArn = h

PrincipalsOf(account) ==
  { p \in Declared("PrincipalAssociation") : requests[p].principal = account }

\* the companions of bucket b
Versioned(b) ==
  \E v \in Declared("BucketVersioningV2") :
    requests[v].bucket = b /\ requests[v].status = "Enabled"

Encrypted(b) ==
  \E e \in Declared("BucketServerSideEncryptionConfigurationV2") :
    requests[e].bucket = b /\ requests[e].sseAlgorithm = "AES256"

PublicAccessBlocked(b) ==
  \E k \in Declared("BucketPublicAccessBlock") :
    /\ requests[k].bucket = b
    /\ requests[k].blockPublicAcls /\ requests[k].blockPublicPolicy
    /\ requests[k].ignorePublicAcls /\ requests[k].restrictPublicBuckets

(***************************************************************************)
(* C11: a completed composition holds exactly one RAM resource share; a    *)
(* subnet has a RAM resource association if and only if its tier has       *)
(* shareViaRam; every entry of sharedAccounts has exactly one principal    *)
(* association and there are no others.                                    *)
(***************************************************************************)
C11_RamShareShape ==
  Completed =>
    /\ Cardinality(Declared("ResourceShare")) = 1
    /\ \A h \in Declared("Subnet") : RamAssociated(h) <=> TierOfSubnet(h).shareViaRam
    /\ \A a \in Declared("ResourceAssociation") :
         /\ requests[a].resourceArn \in Declared("Subnet")
         /\ requests[a].resourceShareArn \in Declared("ResourceShare")
    /\ \A j \in 1..Len(args.sharedAccounts) :
         Cardinality(PrincipalsOf(args.sharedAccounts[j][1])) = 1
    /\ Cardinality(Declared("PrincipalAssociation")) = Len(args.sharedAccounts)

\* a completed composition with two accounts, a shared tier with
\* routeToInternet and a tier that is not shared
C11_Witness ==
  /\ Completed
  /\ Len(args.sharedAccounts) = 2
  /\ \E h \in Declared("Subnet") :
       TierOfSubnet(h).shareViaRam /\ TierOfSubnet(h).routeToInternet
         /\ RamAssociated(h)
  /\ \E h \in Declared("Subnet") : ~TierOfSubnet(h).shareViaRam /\ ~RamAssociated(h)

(***************************************************************************)
(* C12: the flow-log bucket is declared if and only if flowLogs.enabled    *)
(* is true, and wherever the bucket exists it has versioning (Enabled),    *)
(* default encryption (AES256) and a public-access block with all four     *)
(* flags true.                                                             *)
(***************************************************************************)
C12_BucketHardened ==
  /\ Declared("BucketV2") # {} => args.flowLogs.enabled
  /\ Past("flowLogs") /\ args.flowLogs.enabled
       => Cardinality(Declared("BucketV2")) = 1
  /\ \A b \in Declared("BucketV2") :
       Versioned(b) /\ Encrypted(b) /\ PublicAccessBlocked(b)

\* a completed composition with the bucket and its three companions
C12_Witness ==
  /\ Completed
  /\ args.flowLogs.enabled
  /\ \E b \in Declared("BucketV2") :
       Versioned(b) /\ Encrypted(b) /\ PublicAccessBlocked(b)

\* a completed composition with flow logs off and no bucket
C12_WitnessOff ==
  Completed /\ ~args.flowLogs.enabled /\ Declared("BucketV2") = {}

(***************************************************************************)
(* C13: the name of the flow-log bucket includes the environment, so the   *)
(* component of another environment with the same orgPrefix, accountId     *)
(* and region gets another bucket name.                                    *)
(***************************************************************************)
C13_BucketNameHasEnvironment ==
  \A b \in Declared("BucketV2") :
    /\ Includes(requests[b].bucket, args.environment)
    /\ \A d \in Deployments :
         d.environment # args.environment
           => flowLogsBucketName([args EXCEPT !.environment = d.environment])
                # requests[b].bucket

(***************************************************************************)
(* Vocabulary of the routing properties.                                   *)
(***************************************************************************)
RoutesOf(rt) == { r \in Declared("Route") : requests[r].routeTableId = rt }

\* the route tables subnet h is associated with
TablesOf(h) ==
  { requests[a].routeTableId : a \in { x \in Declared("RouteTableAssociation") :
                                         requests[x].subnetId = h } }

TablesOfType(type) == { rt \in Declared("RouteTable") : requests[rt].Type = type }

\* route r sends its destination to the internet gateway
ViaInternetGateway(r) == requests[r].via = "gatewayId" /\ requests[r].target = igw

ViaEgressOnlyGateway(r) ==
  /\ requests[r].via = "egressOnlyGatewayId"
  /\ requests[r].target \in Declared("EgressOnlyInternetGateway")

PublicTierSubnets == { h \in Declared("Subnet") : TierOfSubnet(h).routeToInternet }

PrivateTierSubnets == { h \in Declared("Subnet") : ~TierOfSubnet(h).routeToInternet }

\* the subnet of a tier in zone z (zones are numbered from 1)
SubnetsAt(tierName, z) ==
  { h \in Declared("Subnet") :
      requests[h].Tier = tierName /\ requests[h].availabilityZone = z }

PrivateTierNames ==
  { ConfiguredTiers[p].name : p \in { q \in 1..Len(ConfiguredTiers) :
                                        ~ConfiguredTiers[q].routeToInternet } }

(***************************************************************************)
(* C14: no subnet of a tier without routeToInternet is associated with a   *)
(* route table that holds a route to the internet gateway; once the public *)
(* route table step is done, every subnet of every tier with               *)
(* routeToInternet is associated with exactly one route table, the single  *)
(* public one, whose 0.0.0.0/0 route targets the internet gateway.         *)
(***************************************************************************)
C14_PrivateNeverViaInternetGateway ==
  /\ \A h \in PrivateTierSubnets : \A rt \in TablesOf(h) :
       \A r \in RoutesOf(rt) : ~ViaInternetGateway(r)
  /\ Cardinality(TablesOfType("public")) <= 1
  /\ Past("publicRt") =>
       \A h \in PublicTierSubnets :
         /\ Cardinality(TablesOf(h)) = 1
         /\ TablesOf(h) = TablesOfType("public")
         /\ \A rt \in TablesOf(h) :
              \E r \in RoutesOf(rt) :
                requests[r].destination = DefaultV4 /\ ViaInternetGateway(r)

\* a completed composition with associated subnets of both kinds of tier
C14_Witness ==
  /\ Completed
  /\ \E h \in PrivateTierSubnets : TablesOf(h) # {}
  /\ \E h \in PublicTierSubnets : TablesOf(h) # {}

(***************************************************************************)
(* C15: the public route table holds a ::/0 route to the internet gateway  *)
(* if and only if enableIpv6 is true and allowIpv6PublicIngress is not     *)
(* false; no other route table ever holds one, so with the flag false      *)
(* there is none at all; the ::/0 route of the private tiers to the        *)
(* egress-only gateway exists exactly when there are private tiers, no NAT *)
(* gateway and enableIpv6 is true, whatever the flag.                      *)
(***************************************************************************)
C15_PublicIpv6RouteGated ==
  /\ Past("publicRt") =>
       \A rt \in TablesOfType("public") :
         (\E r \in RoutesOf(rt) :
            requests[r].destination = DefaultV6 /\ ViaInternetGateway(r))
         <=> (Ipv6On /\ args.allowIpv6PublicIngress # Some(FALSE))
  /\ \A r \in Declared("Route") :
       requests[r].destination = DefaultV6 /\ ViaInternetGateway(r)
         => /\ requests[r].routeTableId \in TablesOfType("public")
            /\ args.allowIpv6PublicIngress # Some(FALSE)
  /\ Past("privateRt") =>
       ((\E r \in Declared("Route") :
           requests[r].destination = DefaultV6 /\ ViaEgressOnlyGateway(r))
        <=> (HasPrivateTier /\ natGateways = <<>> /\ Ipv6On))

\* a completed composition with IPv6 on and the flag false: a public route
\* table without ::/0, private tiers with ::/0 to the egress-only gateway
C15_Witness ==
  /\ Completed
  /\ Ipv6On
  /\ args.allowIpv6PublicIngress = Some(FALSE)
  /\ TablesOfType("public") # {}
  /\ \E r \in Declared("Route") :
       requests[r].destination = DefaultV6 /\ ViaEgressOnlyGateway(r)

C16_WitnessShared ==
  /\ Completed
  /\ Ipv6On
  /\ \E rt \in TablesOfType("shared") : Cardinality(RoutesOf(rt)) = 1

(***************************************************************************)
(* C17: the steps that emit the NAT-HA and the IPv6-only warning leave the *)
(* resource requests as they are and never throw, and every later step     *)
(* only adds requests; a composition that emitted a warning never fails:   *)
(* when it ends, it has run through registerOutputs.                       *)
(***************************************************************************)
Warned == HaWarned \/ Ipv6Warned

\* requests' extends requests
Extends(new, old) ==
  Len(new) >= Len(old) /\ \A h \in 1..Len(old) : new[h] = old[h]

\* a step of the two warning statements, and any step after a warning
WarningStepFrame ==
  /\ pc \in {"ha", "ipv6warn"}
       => (requests' = requests /\ error' = error /\ pc' # "failed")
  /\ Warned => (Extends(requests', requests) /\ pc' # "failed")

C17_WarningsAreAdvisory ==
  /\ [][WarningStepFrame]_vars
  /\ [](Warned => pc # "failed" /\ error = "none")
  /\ [](Warned /\ Terminated => Completed /\ outputs # <<>>)

\* a completed composition that emitted the NAT-HA warning, with the
\* resources of every later step
C17_Witness ==
  /\ Completed
  /\ HaWarned
  /\ Declared("NetworkAcl") # {}
  /\ Declared("ResourceShare") # {}
  /\ outputs # <<>>

(***************************************************************************)
(* Vocabulary of the allocator's error properties.                         *)
(***************************************************************************)
\* calculateSubnetCidrs has been called and has returned or thrown
AllocatorDone == pc \notin {"vpc", "igw", "cidrs"}

\* the token is a decimal numeral and nothing else
Numeral(t) == t.lead # NaN /\ ~t.tail

\* the parent block is a.b.c.d/p with four octets in 0..255 and p in 0..32
StrictParent ==
  /\ Len(args.vpcCidr) = 2
  /\ Len(args.vpcCidr[1]) = 4
  /\ \A j \in 1..4 :
       /\ Numeral(args.vpcCidr[1][j])
       /\ args.vpcCidr[1][j].lead \in 0..255
  /\ Len(args.vpcCidr[2]) = 1
  /\ Numeral(args.vpcCidr[2][1])
  /\ args.vpcCidr[2][1].lead \in 0..32

\* calculateSubnetCidrs returned a map
AllocatorReturned == AllocatorDone /\ error = "none"

(***************************************************************************)
(* C18: for a malformed parent block (wrong octet count, an octet or the   *)
(* prefix not a number, an octet above 255, a prefix outside 0..32)        *)
(* calculateSubnetCidrs throws an invalid-block error and returns no       *)
(* block, whatever the tier list (the empty one included) and the zone     *)
(* count.                                                                  *)
(***************************************************************************)
C18_MalformedParentRejected ==
  AllocatorDone /\ ~StrictParent
    => error \in AllocatorErrors /\ DOMAIN tierCidrs = {}

(***************************************************************************)
(* C19: for a well-formed parent block calculateSubnetCidrs returns blocks *)
(* only if every slot's prefix length (parent prefix + cidrBits) is at     *)
(* most 32 and no block duplicates or overlaps an earlier one; otherwise   *)
(* it fails and returns nothing.                                           *)
(***************************************************************************)
C19_OverflowRejected ==
  StrictParent /\ AllocatorReturned
    => /\ \A s \in Slots : SlotBlock(s).prefix <= 32
       /\ \A s \in Slots : \A t \in Slots :
            s # t => ~Overlap(SlotBlock(s), SlotBlock(t))

(***************************************************************************)
(* Vocabulary of the network ACL properties.                               *)
(***************************************************************************)
\* the network ACLs of the tiers with routeToInternet
PublicAcls ==
  { n \in Declared("NetworkAcl") :
      \E p \in 1..Len(ConfiguredTiers) :
        /\ ConfiguredTiers[p].name = requests[n].Tier
        /\ ConfiguredTiers[p].routeToInternet }

RulesOf(n) == { r \in Declared("NetworkAclRule") : requests[r].networkAclId = n }

\* rule r lets TCP traffic from any IPv4 address in to the port
AllowsInboundTcp(r, port) ==
  /\ ~requests[r].egress
  /\ requests[r].ruleAction = "allow"
  /\ requests[r].cidrBlock = AnyIpv4
  /\ \/ requests[r].protocol = "-1"
     \/ /\ requests[r].protocol = "tcp"
        /\ requests[r].fromPort <= port
        /\ port <= requests[r].toPort

\* SSH, RDP, MySQL, PostgreSQL
AdminPorts == {22, 3389, 3306, 5432}

(***************************************************************************)
(* C20: no rule of the network ACL of a tier with routeToInternet lets     *)
(* inbound TCP from the internet reach port 22 (SSH), 3389 (RDP) or a      *)
(* database port (3306, 5432).                                             *)
(***************************************************************************)
C20_PublicAclBlocksAdminPorts ==
  \A n \in PublicAcls : \A r \in RulesOf(n) : \A port \in AdminPorts :
    ~AllowsInboundTcp(r, port)

(***************************************************************************)
(* Vocabulary of the endpoint properties.                                  *)
(***************************************************************************)
Endpoints == Declared("VpcEndpoint")

EndpointsOfType(type) == { v \in Endpoints : requests[v].vpcEndpointType = type }

\* the services the caller asked for
RequestedServices ==
  LET services == Coalesce(args.vpcEndpoints, <<>>)
  IN  { services[j] : j \in 1..Len(services) }

\* the elements of a sequence
Range(seq) == { seq[j] : j \in 1..Len(seq) }

(***************************************************************************)
(* C21: when the topology has a private tier, every interface endpoint is  *)
(* placed into subnets of private tiers, one in every zone, whatever the   *)
(* tiers are called, and uses the one security group of the endpoints,     *)
(* whose only ingress rule is TCP 443 from the VPC CIDR.                   *)
(***************************************************************************)
C21_InterfaceEndpointsInPrivateSubnets ==
  HasPrivateTier =>
    \A v \in EndpointsOfType("Interface") :
      /\ Range(requests[v].subnetIds) \subseteq PrivateTierSubnets
      /\ \A z \in 1..ZoneCount :
           \E h \in Range(requests[v].subnetIds) : requests[h].availabilityZone = z
      /\ Len(requests[v].subnetIds) = ZoneCount
      /\ Len(requests[v].securityGroupIds) = 1
      /\ \A g \in Range(requests[v].securityGroupIds) :
           /\ g \in Declared("SecurityGroup")
           /\ Len(requests[g].ingress) = 1
           /\ requests[g].ingress[1].protocol = "tcp"
           /\ requests[g].ingress[1].fromPort = 443
           /\ requests[g].ingress[1].toPort = 443
           /\ requests[g].ingress[1].cidrBlocks = <<args.vpcCidr>>

(***************************************************************************)
(* C22: once the endpoint step is done, every service named in             *)
(* vpcEndpoints has exactly one endpoint, a Gateway endpoint if and only   *)
(* if the service is s3 or dynamodb and an Interface endpoint otherwise;   *)
(* there is no endpoint for a service that was not named; every gateway    *)
(* endpoint is attached to every route table the routing step declared.    *)
(***************************************************************************)
C22_EndpointTypes ==
  /\ \A v \in Endpoints :
       /\ requests[v].service \in RequestedServices
       /\ requests[v].vpcEndpointType \in {"Gateway", "Interface"}
       /\ requests[v].vpcEndpointType = "Gateway"
            <=> requests[v].service \in {"s3", "dynamodb"}
       /\ requests[v].vpcEndpointType = "Gateway"
            => Range(requests[v].routeTableIds) = Declared("RouteTable")
  /\ Past("endpoints") =>
       \A service \in RequestedServices :
         Cardinality({ v \in Endpoints : requests[v].service = service }) = 1

\* a completed composition with a dynamodb gateway endpoint attached to
\* several route tables, interface endpoints, and no s3 endpoint
C22_Witness ==
  /\ Completed
  /\ \E v \in EndpointsOfType("Gateway") :
       requests[v].service = "dynamodb" /\ Len(requests[v].routeTableIds) >= 3
  /\ Cardinality(EndpointsOfType("Interface")) = 2
  /\ \A v \in Endpoints : requests[v].service # "s3"

(***************************************************************************)
(* C23: the outputs of a completed composition expose, for every tier of   *)
(* the topology whatever its name, the list of that tier's subnet ids, one *)
(* per zone in zone order.                                                 *)
(***************************************************************************)
\* the subnet-id lists among the registered outputs
OutputSubnetLists ==
  { outputs[1].publicSubnetIds, outputs[1].privateSubnetIds,
    outputs[1].dataSubnetIds }

\* the ids of a tier's subnets in zone order
SubnetIdsOf(tierName) ==
  [z \in 1..ZoneCount |-> CHOOSE h \in SubnetsAt(tierName, z) : TRUE]

C23_OutputsExposeEveryTier ==
  Completed =>
    \A p \in 1..Len(ConfiguredTiers) :
      /\ \A z \in 1..ZoneCount : Cardinality(SubnetsAt(ConfiguredTiers[p].name, z)) = 1
      /\ SubnetIdsOf(ConfiguredTiers[p].name) \in OutputSubnetLists

(***************************************************************************)
(* C24: a topology gets past planning, and has subnets declared, only if   *)
(* its tier list has at least one tier and no two tiers of the same name   *)
(* (two tiers of one name receive the same list of blocks).                *)
(***************************************************************************)
DistinctTierNames ==
  \A p \in 1..Len(ConfiguredTiers) : \A q \in 1..Len(ConfiguredTiers) :
    p # q => ConfiguredTiers[p].name # ConfiguredTiers[q].name

C24_TopologyValidated ==
  AllocatorReturned \/ Declared("Subnet") # {}
    => Len(ConfiguredTiers) >= 1 /\ DistinctTierNames

(***************************************************************************)
(* Vocabulary of the ordering properties.                                  *)
(***************************************************************************)
\* the composition step a kind of resource belongs to
StepOfKind(kind) ==
  CASE kind = "Vpc" -> 1
    [] kind = "InternetGateway" -> 2
    [] kind = "Subnet" -> 3
    [] kind \in {"Eip", "NatGateway"} -> 4
    [] kind \in {"NetworkAcl", "NetworkAclRule", "NetworkAclAssociation"} -> 5
    [] kind \in {"RouteTable", "Route", "RouteTableAssociation",
                 "EgressOnlyInternetGateway"} -> 6
    [] kind \in {"BucketV2", "BucketVersioningV2", "BucketLifecycleConfigurationV2",
                 "BucketPublicAccessBlock",
                 "BucketServerSideEncryptionConfigurationV2", "FlowLog"} -> 7
    [] kind \in {"SecurityGroup", "VpcEndpoint"} -> 8
    [] kind \in {"ResourceShare", "ResourceAssociation", "PrincipalAssociation"} -> 9

Ref(id, kind) == [id |-> id, kind |-> kind]

RefsTo(ids, kind) == { Ref(ids[j], kind) : j \in 1..Len(ids) }

\* the kind of resource a route's target is
TargetKind(via) ==
  CASE via = "gatewayId" -> "InternetGateway"
    [] via = "natGatewayId" -> "NatGateway"
    [] via = "egressOnlyGatewayId" -> "EgressOnlyInternetGateway"

\* the identifiers request h refers to, each with the kind it must have
RefsOf(h) ==
  LET q == requests[h]
      k == q.kind
  IN  CASE k \in {"InternetGateway", "Subnet", "NetworkAcl", "RouteTable",
                  "EgressOnlyInternetGateway", "SecurityGroup"}
             -> { Ref(q.vpcId, "Vpc") }
        [] k = "NatGateway"
             -> { Ref(q.subnetId, "Subnet"), Ref(q.allocationId, "Eip") }
        [] k = "NetworkAclRule" -> { Ref(q.networkAclId, "NetworkAcl") }
        [] k = "NetworkAclAssociation"
             -> { Ref(q.networkAclId, "NetworkAcl"), Ref(q.subnetId, "Subnet") }
        [] k = "Route"
             -> { Ref(q.routeTableId, "RouteTable"), Ref(q.target, TargetKind(q.via)) }
        [] k = "RouteTableAssociation"
             -> { Ref(q.subnetId, "Subnet"), Ref(q.routeTableId, "RouteTable") }
        [] k \in {"BucketVersioningV2", "BucketLifecycleConfigurationV2",
                  "BucketPublicAccessBlock",
                  "BucketServerSideEncryptionConfigurationV2"}
             -> { Ref(q.bucket, "BucketV2") }
        [] k = "FlowLog"
             -> { Ref(q.vpcId, "Vpc"), Ref(q.logDestination, "BucketV2") }
        [] k = "VpcEndpoint"
             -> { Ref(q.vpcId, "Vpc") }
                  \cup RefsTo(q.routeTableIds, "RouteTable")
                  \cup RefsTo(q.subnetIds, "Subnet")
                  \cup RefsTo(q.securityGroupIds, "SecurityGroup")
        [] k = "ResourceAssociation"
             -> { Ref(q.resourceArn, "Subnet"),
                  Ref(q.resourceShareArn, "ResourceShare") }
        [] k = "PrincipalAssociation" -> { Ref(q.resourceShareArn, "ResourceShare") }
        [] OTHER -> {}

(***************************************************************************)
(* C25: the requests are issued in the order of the steps (VPC, internet   *)
(* gateway, subnets, NAT gateways, network ACLs, route tables, flow-log    *)
(* bucket, endpoints, RAM share), and every identifier a request refers    *)
(* to is that of a resource of the right kind declared strictly before.    *)
(***************************************************************************)
C25_StepOrderAndReferences ==
  /\ \A h \in 1..(Len(requests) - 1) :
       StepOfKind(requests[h].kind) <= StepOfKind(requests[h + 1].kind)
  /\ \A h \in 1..Len(requests) : \A ref \in RefsOf(h) :
       /\ ref.id \in 1..(h - 1)
       /\ requests[ref.id].kind = ref.kind

\* a completed composition with resources of every step
C25_Witness ==
  /\ Completed
  /\ \A step \in 1..9 :
       \E h \in 1..Len(requests) : StepOfKind(requests[h].kind) = step
  /\ Declared("Route") # {}
  /\ Declared("VpcEndpoint") # {}

(***************************************************************************)
(* C26: the block calculateSubnetCidrs returns for the p-th tier (from 0)  *)
(* and zone z (from 0) is cidrSubnet of the parent, that tier's cidrBits   *)
(* and index p * zoneCount + z, so its prefix length is the parent's plus  *)
(* the tier's cidrBits; a second call with the same arguments returns the  *)
(* same blocks.                                                            *)
(***************************************************************************)
\* the cidrBits of the p-th tier (from 1)
CidrBitsOf(p) == Coalesce(subnetTiers[p].cidrBits, DefaultCidrBits)

\* what the single counter gives the p-th tier (from 1) in zone z (from 1)
CounterBlock(p, z) ==
  cidrSubnet(args.vpcCidr, CidrBitsOf(p), (p - 1) * ZoneCount + (z - 1)).val

C26_SlotIndexFromCounter ==
  AllocatorReturned =>
    /\ \A p \in 1..Len(subnetTiers) : \A z \in 1..ZoneCount :
         /\ tierCidrs[subnetTiers[p].name][z] = CounterBlock(p, z)
         /\ tierCidrs[subnetTiers[p].name][z].prefix
              = Plus(parseInt(args.vpcCidr[2]), CidrBitsOf(p))
    /\ calculateSubnetCidrs(args.vpcCidr, subnetTiers, ZoneCount).val = tierCidrs

(***************************************************************************)
(* C27: a completed composition holds exactly one network ACL per tier,    *)
(* whatever the zone count, and every subnet has exactly one network ACL   *)
(* association, with the ACL of its own tier, and exactly one route table  *)
(* association.                                                            *)
(***************************************************************************)
C27_OneAclPerTier ==
  Completed =>
    LET acls == Declared("NetworkAcl")
        aclAssocs == Declared("NetworkAclAssociation")
        rtAssocs == Declared("RouteTableAssociation")
    IN  /\ Cardinality(acls) = Len(ConfiguredTiers)
        /\ \A p \in 1..Len(ConfiguredTiers) :
             Cardinality({ n \in acls : requests[n].Tier = ConfiguredTiers[p].name }) = 1
        /\ \A h \in Declared("Subnet") :
             /\ Cardinality({ a \in aclAssocs : requests[a].subnetId = h }) = 1
             /\ \A a \in aclAssocs :
                  requests[a].subnetId = h
                    => /\ requests[a].networkAclId \in acls
                       /\ requests[requests[a].networkAclId].Tier = requests[h].Tier
             /\ Cardinality({ a \in rtAssocs : requests[a].subnetId = h }) = 1

\* a completed composition of four tiers in six zones
C27_Witness ==
  /\ Completed
  /\ ZoneCount = 6
  /\ Len(ConfiguredTiers) = 4
  /\ Cardinality(Declared("NetworkAcl")) = 4
  /\ Cardinality(Declared("NetworkAclAssociation")) = 24

(***************************************************************************)
(* Vocabulary of the arithmetic properties: addresses as four octets,      *)
(* computed with integer arithmetic on the octets.                         *)
(***************************************************************************)
\* the octets of the parent block, highest first
BaseOctets == [j \in 1..4 |-> args.vpcCidr[1][j].lead]

\* the base address is a.b.c.d with four octets in 0..255
ValidBase ==
  /\ Len(args.vpcCidr) = 2
  /\ Len(args.vpcCidr[1]) = 4
  /\ \A j \in 1..4 :
       Numeral(args.vpcCidr[1][j]) /\ args.vpcCidr[1][j].lead \in 0..255

\* octet k (0 the lowest) of n * 2^shift modulo 2^32, for 0 <= n < 2^16
ShiftedOctet(n, shift, k) ==
  LET v == n * 2^(shift % 8)
      a == shift \div 8
  IN  IF k < a THEN 0 ELSE (v \div (256^(k - a))) % 256

\* x | y of two octets
RECURSIVE OrOctet(_, _)
OrOctet(x, y) ==
  IF x = 0 /\ y = 0
  THEN 0
  ELSE (IF x % 2 = 1 \/ y % 2 = 1 THEN 1 ELSE 0) + 2 * OrOctet(x \div 2, y \div 2)

\* base | (netnum * 2^(32 - newPrefix) mod 2^32), as octets highest first
OrAddress(base, netnum, newPrefix) ==
  [j \in 1..4 |-> OrOctet(base[j], ShiftedOctet(netnum, 32 - newPrefix, 4 - j))]

\* the carry out of octet k (0 the lowest) of base + netnum * 2^shift
RECURSIVE Carry(_, _, _, _)
Carry(base, netnum, shift, k) ==
  IF k < 0
  THEN 0
  ELSE (base[4 - k] + ShiftedOctet(netnum, shift, k)
          + Carry(base, netnum, shift, k - 1)) \div 256

\* base + netnum * 2^(32 - newPrefix) modulo 2^32, as octets highest first
SumAddress(base, netnum, newPrefix) ==
  [j \in 1..4 |->
     (base[j] + ShiftedOctet(netnum, 32 - newPrefix, 4 - j)
        + Carry(base, netnum, 32 - newPrefix, 3 - j)) % 256]

\* the position of the tier whose blocks the map holds under a name
PositionOf(name) ==
  CHOOSE p \in 1..Len(subnetTiers) :
    /\ subnetTiers[p].name = name
    /\ \A q \in 1..Len(subnetTiers) : subnetTiers[q].name = name => q <= p

\* the netnum cidrSubnet was called with for the block of a name and zone
NetnumOf(name, z) == (PositionOf(name) - 1) * ZoneCount + (z - 1)

\* the host bits of the parent block are zero
CanonicalParent ==
  \A i \in Bits : i < 32 - ParentBlock.prefix => WordOf(ParentBlock.ip)[i] = 0

\* every tier has the same cidrBits
UniformCidrBits ==
  \A p \in 1..Len(subnetTiers) : CidrBitsOf(p) = CidrBitsOf(1)

\* the preconditions of C28
AlignedAllocation ==
  /\ StrictParent
  /\ CanonicalParent
  /\ Len(subnetTiers) >= 1
  /\ UniformCidrBits
  /\ ParentBlock.prefix + CidrBitsOf(1) <= 32
  /\ Len(subnetTiers) * ZoneCount <= 2^CidrBitsOf(1)

(***************************************************************************)
(* C28: for a canonical parent block, tiers of one cidrBits b with         *)
(* parentPrefix + b <= 32 and tiers * zones <= 2^b, the k-th slot's block  *)
(* is the parent's address plus k * 2^(32 - parentPrefix - b) with prefix  *)
(* parentPrefix + b, the blocks are pairwise disjoint and inside the       *)
(* parent; 10.224.0.0/16 with the default tiers and 3 zones gives          *)
(* 10.224.0.0/22, 10.224.4.0/22, ..., 10.224.32.0/22.                      *)
(***************************************************************************)
C28_AlignedSubBlocks ==
  AllocatorReturned /\ AlignedAllocation =>
    /\ \A s \in Slots :
         LET k == (s[1] - 1) * ZoneCount + (s[2] - 1)
             newPrefix == ParentBlock.prefix + CidrBitsOf(1)
         IN  /\ SlotBlock(s).prefix = newPrefix
             /\ SlotBlock(s).ip = SumAddress(ParentBlock.ip, k, newPrefix)
             /\ Inside(SlotBlock(s), ParentBlock)
    /\ Cardinality(Slots) = Len(subnetTiers) * ZoneCount
    /\ \A s \in Slots : \A t \in Slots :
         s # t => ~Overlap(SlotBlock(s), SlotBlock(t))
    /\ args.vpcCidr = CidrText(10, 224, 0, 0, 16) /\ subnetTiers = DefaultTiers
         /\ ZoneCount = 3
         => \A s \in Slots :
              SlotBlock(s)
                = [ip |-> <<10, 224, 4 * ((s[1] - 1) * 3 + (s[2] - 1)), 0>>,
                   prefix |-> 22]

(***************************************************************************)
(* C29: for every base address of four octets in 0..255, a first octet of  *)
(* 128 or more included, and every new prefix length in 1..32, the address *)
(* cidrSubnet returns is base OR (netnum * 2^(32 - newPrefix) mod 2^32),   *)
(* and each of its octets is in 0..255.                                    *)
(***************************************************************************)
C29_UnsignedArithmetic ==
  AllocatorReturned /\ ValidBase =>
    \A name \in DOMAIN tierCidrs : \A z \in 1..Len(tierCidrs[name]) :
      LET block == tierCidrs[name][z]
      IN  block.prefix \in 1..32 =>
            /\ block.ip = OrAddress(BaseOctets, NetnumOf(name, z), block.prefix)
            /\ \A j \in 1..4 : block.ip[j] \in 0..255

\* 192.168.1.0/24 with a block of netnum 3 or more and prefix length 32
C29_Witness ==
  /\ AllocatorReturned /\ ValidBase
  /\ BaseOctets[1] >= 128
  /\ \E name \in DOMAIN tierCidrs : \E z \in 1..Len(tierCidrs[name]) :
       /\ tierCidrs[name][z].prefix = 32
       /\ NetnumOf(name, z) >= 3
       /\ tierCidrs[name][z].ip[1] >= 128

(***************************************************************************)
(* Role names: the naming helpers and the GithubActionsOidc component's    *)
(* buildEnvironment.  A text is the sequence of its words and hyphens.     *)
(***************************************************************************)
ENVIRONMENTS == <<"dev", "stg", "prd", "sec">>

ENVIRONMENT_NAME_SEGMENTS ==
  [dev |-> "dev", stg |-> "staging", prd |-> "prod", sec |-> "secops"]

GITHUB_OIDC_ROLE_SUFFIX == <<"github", "-", "actions", "-", "deploy">>

CROSS_ACCOUNT_ROLE_SUFFIX == <<"pulumi", "-", "cross", "-", "account">>

getEnvironmentSegment(environment) == ENVIRONMENT_NAME_SEGMENTS[environment]

\* `${prefix}-${segment}-${GITHUB_OIDC_ROLE_SUFFIX}`
buildGithubOidcRoleName(prefix, environment) ==
  LET segment == getEnvironmentSegment(environment)
  IN  prefix \o <<"-">> \o <<segment>> \o <<"-">> \o GITHUB_OIDC_ROLE_SUFFIX

\* `${prefix}-${segment}-${CROSS_ACCOUNT_ROLE_SUFFIX}`
buildCrossAccountRoleName(prefix, environment) ==
  LET segment == getEnvironmentSegment(environment)
  IN  prefix \o <<"-">> \o <<segment>> \o <<"-">> \o CROSS_ACCOUNT_ROLE_SUFFIX

\* `arn:aws:iam::${accountId}:role/${buildCrossAccountRoleName(...)}`
getCrossAccountRoleArn(accountId, productLine, environment) ==
  <<"arn:aws:iam::", accountId, ":role/">>
    \o buildCrossAccountRoleName(productLine, environment)

ROLE_SUFFIX == <<"-", "github", "-", "actions", "-", "deploy">>

ASSUME_ROLE_SUFFIX == <<"-", "pulumi", "-", "cross", "-", "account">>

\* text.endsWith(suffix)
endsWith(text, suffix) ==
  /\ Len(text) >= Len(suffix)
  /\ SubSeq(text, Len(text) - Len(suffix) + 1, Len(text)) = suffix

\* deriveAssumeRoleName without the check of the suffix
deriveAssumeRoleNameUnchecked(roleName) ==
  Ok(SubSeq(roleName, 1, Len(roleName) - Len(ROLE_SUFFIX)) \o ASSUME_ROLE_SUFFIX)

deriveAssumeRoleName(roleName) ==
  IF ~endsWith(roleName, ROLE_SUFFIX)
  THEN Throw("Unable to derive assume role name")
  ELSE Ok(SubSeq(roleName, 1, Len(roleName) - Len(ROLE_SUFFIX))
            \o ASSUME_ROLE_SUFFIX)

\* the prefixes of the callers: the empty text and a prefix that itself
\* ends in the deploy role's suffix included
RolePrefixes ==
  { <<"worx">>, <<"care">>, <<>>, <<"adaptive", "-", "worx">>,
    <<"worx", "-", "github", "-", "actions", "-", "deploy">> }

\* role names of a custom naming pattern
CustomRoleNames ==
  { <<>>,
    <<"deploy">>,
    <<"github", "-", "actions", "-", "deploy">>,
    <<"-", "github", "-", "actions", "-", "deploy">>,
    <<"worx", "-", "dev", "-", "github", "-", "actions">>,
    <<"worx", "-", "dev", "-", "github", "-", "actions", "-", "deploy", "-", "v2">>,
    <<"worx", "-", "dev", "-", "github", "-", "actions", "-", "deployer">>,
    <<"worx", "-", "dev", "-", "GitHub", "-", "actions", "-", "deploy">>,
    <<"worx", "-", "dev", "-", "pulumi", "-", "cross", "-", "account">> }

\* GithubOidcEnvironmentConfig
OidcConfigs ==
  [ name : {"staging", "secops"},
    accountId : {"730335555486", "413639306030"},
    roleName : { buildGithubOidcRoleName(p, ENVIRONMENTS[e]) :
                   p \in RolePrefixes, e \in 1..Len(ENVIRONMENTS) }
               \cup CustomRoleNames,
    assumeRoleName : { Undefined, Some(<<>>), Some(<<"deployer">>) } ]

\* buildEnvironment(parent, baseName, cfg, ...) is called with cfg = args
OidcInit ==
  /\ args \in OidcConfigs
  /\ pc = "provider"
  /\ requests = <<>>
  /\ warnings = <<>>
  /\ error = "none"
  /\ vpc = 0
  /\ igw = 0
  /\ subnetTiers = <<>>
  /\ tierCidrs = EmptyMap
  /\ tierSubnets = EmptyMap
  /\ natGateways = <<>>
  /\ allRouteTableIds = <<>>
  /\ flowLogsBucket = 0
  /\ ramShare = 0
  /\ outputs = <<>>

\* buildProvider, called at line 150
BuildProvider ==
  /\ pc = "provider"
  /\ LET r == IF args.assumeRoleName # Undefined
              THEN Ok(args.assumeRoleName[1])
              ELSE deriveAssumeRoleName(args.roleName)
     IN  IF r.ok
         THEN /\ requests' = Append(requests,
                   Res("Provider", FALSE,
                       [roleArn |-> <<"arn:aws:iam::", args.accountId, ":role/">>
                                      \o r.val,
                        sessionName |-> <<"pulumi", "-", "github", "-", "oidc",
                                          "-", args.name>>,
                        Environment |-> args.name]))
              /\ pc' = "oidcProvider"
              /\ UNCHANGED error
         ELSE Fail(r.err, requests)
  /\ UNCHANGED <<args, warnings, vpc, igw, subnetTiers, tierCidrs, tierSubnets,
                 natGateways, allRouteTableIds, flowLogsBucket, ramShare,
                 outputs>>

DeclareOpenIdConnectProvider ==
  /\ pc = "oidcProvider"
  /\ requests' = Append(requests,
       Res("OpenIdConnectProvider", FALSE,
           [provider |-> 1, Environment |-> args.name]))
  /\ pc' = "role"
  /\ UNCHANGED <<args, warnings, error, vpc, igw, subnetTiers, tierCidrs,
                 tierSubnets, natGateways, allRouteTableIds, flowLogsBucket,
                 ramShare, outputs>>

DeclareRole ==
  /\ pc = "role"
  /\ requests' = Append(requests,
       Res("Role", FALSE,
           [name |-> args.roleName, provider |-> 1, oidcProvider |-> 2,
            Environment |-> args.name]))
  /\ pc' = "attachment"
  /\ UNCHANGED <<args, warnings, error, vpc, igw, subnetTiers, tierCidrs,
                 tierSubnets, natGateways, allRouteTableIds, flowLogsBucket,
                 ramShare, outputs>>

DeclareRolePolicyAttachment ==
  /\ pc = "attachment"
  /\ requests' = Append(requests,
       Res("RolePolicyAttachment", FALSE, [role |-> 3, provider |-> 1]))
  /\ pc' = "done"
  /\ UNCHANGED <<args, warnings, error, vpc, igw, subnetTiers, tierCidrs,
                 tierSubnets, natGateways, allRouteTableIds, flowLogsBucket,
                 ramShare, outputs>>

OidcNext ==
  \/ BuildProvider
  \/ DeclareOpenIdConnectProvider
  \/ DeclareRole
  \/ DeclareRolePolicyAttachment

OidcSpec == OidcInit /\ [][OidcNext]_vars

\* the role name ends in the text -github-actions-deploy
EndsInDeploySuffix(roleName) ==
  \E n \in 0..Len(roleName) :
    roleName = SubSeq(roleName, 1, n)
                 \o <<"-", "github", "-", "actions", "-", "deploy">>

\* buildProvider has returned or thrown
ProviderBuilt == pc # "provider"

(***************************************************************************)
(* C30: for every prefix and environment, the role the provider assumes    *)
(* for the role name buildGithubOidcRoleName(prefix, env), with no         *)
(* assumeRoleName given, is buildCrossAccountRoleName(prefix, env), and    *)
(* its ARN is getCrossAccountRoleArn's; for a role name that does not end  *)
(* in -github-actions-deploy deriveAssumeRoleName throws and no provider   *)
(* is declared, unless assumeRoleName is given, which is then used as is.  *)
(***************************************************************************)
C30_RoleNamesConsistent ==
  /\ \A p \in RolePrefixes : \A e \in 1..Len(ENVIRONMENTS) :
       /\ deriveAssumeRoleName(buildGithubOidcRoleName(p, ENVIRONMENTS[e]))
            = Ok(buildCrossAccountRoleName(p, ENVIRONMENTS[e]))
       /\ ProviderBuilt /\ args.assumeRoleName = Undefined
            /\ args.roleName = buildGithubOidcRoleName(p, ENVIRONMENTS[e])
            => /\ error = "none"
               /\ requests[1].kind = "Provider"
               /\ requests[1].roleArn
                    = getCrossAccountRoleArn(args.accountId, p, ENVIRONMENTS[e])
  /\ ProviderBuilt /\ args.assumeRoleName = Undefined
       /\ ~EndsInDeploySuffix(args.roleName)
       => /\ error = "Unable to derive assume role name"
          /\ requests = <<>>
          /\ pc = "failed"
  /\ ProviderBuilt /\ args.assumeRoleName # Undefined
       => /\ error = "none"
          /\ requests[1].kind = "Provider"
          /\ requests[1].roleArn
               = <<"arn:aws:iam::", args.accountId, ":role/">>
                   \o args.assumeRoleName[1]

\* worx-staging-github-actions-deploy: the provider assumes
\* worx-staging-pulumi-cross-account and the role is declared
C30_Witness ==
  /\ pc = "done"
  /\ args.assumeRoleName = Undefined
  /\ args.roleName = <<"worx", "-", "staging", "-", "github", "-", "actions",
                       "-", "deploy">>
  /\ requests[1].roleArn
       = <<"arn:aws:iam::", args.accountId, ":role/", "worx", "-", "staging",
           "-", "pulumi", "-", "cross", "-", "account">>
  /\ requests[3].name = args.roleName

\* worx-dev-github-actions-deploy-v2 with no assumeRoleName: thrown
C30_WitnessThrown ==
  /\ pc = "failed"
  /\ args.assumeRoleName = Undefined
  /\ args.roleName = <<"worx", "-", "dev", "-", "github", "-", "actions", "-",
                       "deploy", "-", "v2">>
  /\ error = "Unable to derive assume role name"

=========================================================================
